---- MODULE Spec2Model ----
(***************************************************************************)
(* AlDS: frontier containers (FIFOQueue, LIFOQueue, Stack, PriorityQueue), *)
(* the search-tree Node and the SearchProblem successors routine.          *)
(*                                                                         *)
(* One object is constructed per behaviour (obj); its operations are the   *)
(* actions.  Python lists are sequences, index k of a list being k+1 here. *)
(* Elements, states and actions are small integers, for which the numpy    *)
(* dtype chosen in Node._path_finder_ stores values unchanged.             *)
(***************************************************************************)
EXTENDS Integers, Sequences, FiniteSets, Bags, TLC

\* ---------------------------------------------------------------- bounds
NumElems == 2
MaxSeed == 2
MaxLen == 3
MaxOps == 4
MaxCounter == 3
MaxNodes == 5

\* elements handed to the list-backed classes, and to the PriorityQueue
Elems == 1..NumElems

PQElems == {1, 2, 3}
Prios == {3, 5}

VARIABLES
  obj,          \* which class was instantiated
  ctor,         \* outcome of the constructor: "ok" or the exception raised
  exc,          \* exception raised by the last operation, "" when none
  fifo_data,    \* FIFOQueue._data
  lifo_data,    \* LIFOQueue._data
  stack_data,   \* Stack._data
  pq_data,      \* PriorityQueue._data, a list of <<priority, counter, element>>
  pq_counter,   \* PriorityQueue._counter
  call,         \* the last call made on the object: <<name, arguments...>>
  ret,          \* what the last read-only call returned, as a list (<< >>: nothing)
  log,          \* history: seed elements, pushes and pop results of FIFO/LIFO/Stack
  pq_in,        \* history: <<element, priority>> of every push, in order
  pq_out,       \* history: entries removed by pop, in order
  nodes,        \* every Node created so far
  gen,          \* the generator returned by Node.expand that is in flight
  made,         \* history: for every node, the position in its generator that built it
  ucs_pc,       \* position of the uniform-cost driving loop
  ucs_cur       \* node popped last by the driving loop (0: none)

vars == <<obj, ctor, exc, call, ret, fifo_data, lifo_data, stack_data, pq_data, pq_counter,
          log, pq_in, pq_out, nodes, gen, made, ucs_pc, ucs_cur>>

\* ------------------------------------------------------------ list helpers
Front(s) == SubSeq(s, 1, Len(s) - 1)

Last(s) == s[Len(s)]

RECURSIVE Reverse(_)
Reverse(s) == IF s = << >> THEN << >> ELSE Append(Reverse(Tail(s)), Head(s))

RemoveAt(s, i) == SubSeq(s, 1, i - 1) \o SubSeq(s, i + 1, Len(s))

RECURSIVE SeqsUpTo(_, _)
SeqsUpTo(S, n) ==
  IF n = 0 THEN {<< >>}
  ELSE LET shorter == SeqsUpTo(S, n - 1)
       IN shorter \cup {Append(s, x) : s \in {t \in shorter : Len(t) = n - 1}, x \in S}

RECURSIVE SeqToBag(_)
SeqToBag(s) == IF s = << >> THEN EmptyBag ELSE SeqToBag(Tail(s)) (+) SetToBag({Head(s)})

\* ------------------------------------------------- heapq (tuple ordering)
\* Python compares the entries (priority, counter, element) lexicographically.
EntryLess(a, b) ==
  \/ a[1] < b[1]
  \/ a[1] = b[1] /\ a[2] < b[2]
  \/ a[1] = b[1] /\ a[2] = b[2] /\ a[3] < b[3]

\* heapq._siftdown(heap, startpos, pos), positions 0-based
RECURSIVE SiftDownLoop(_, _, _, _)
SiftDownLoop(heap, startpos, pos, newitem) ==
  IF pos > startpos
  THEN LET parentpos == (pos - 1) \div 2
           parent == heap[parentpos + 1]
       IN IF EntryLess(newitem, parent)
          THEN SiftDownLoop([heap EXCEPT ![pos + 1] = parent], startpos, parentpos, newitem)
          ELSE [heap EXCEPT ![pos + 1] = newitem]
  ELSE [heap EXCEPT ![pos + 1] = newitem]

SiftDown(heap, startpos, pos) == SiftDownLoop(heap, startpos, pos, heap[pos + 1])

\* heapq._siftup(heap, pos), positions 0-based
RECURSIVE SiftUpLoop(_, _, _, _)
SiftUpLoop(heap, startpos, pos, newitem) ==
  LET endpos == Len(heap)
      childpos == 2 * pos + 1
  IN IF childpos < endpos
     THEN LET rightpos == childpos + 1
              c == IF rightpos < endpos /\ ~EntryLess(heap[childpos + 1], heap[rightpos + 1])
                   THEN rightpos ELSE childpos
          IN SiftUpLoop([heap EXCEPT ![pos + 1] = heap[c + 1]], startpos, c, newitem)
     ELSE SiftDown([heap EXCEPT ![pos + 1] = newitem], startpos, pos)

SiftUp(heap, pos) == SiftUpLoop(heap, pos, pos, heap[pos + 1])

\* heapq.heappush(heap, item)
HeapPush(heap, item) == SiftDown(Append(heap, item), 0, Len(heap))

\* heapq.heappop(heap) on a non-empty heap: the entry returned
HeapPopItem(heap) == IF Len(heap) = 1 THEN Last(heap) ELSE heap[1]

\* heapq.heappop(heap) on a non-empty heap: the heap left behind
HeapPopRest(heap) ==
  IF Len(heap) = 1 THEN << >>
  ELSE SiftUp([Front(heap) EXCEPT ![1] = Last(heap)], 0)

\* heapq.heapify(x): _siftup for i in reversed(range(n // 2))
RECURSIVE HeapifyFrom(_, _)
HeapifyFrom(x, i) == IF i < 0 THEN x ELSE HeapifyFrom(SiftUp(x, i), i - 1)

Heapify(x) == HeapifyFrom(x, (Len(x) \div 2) - 1)

\* ------------------------------------------------- FIFOQueue, LIFOQueue, Stack
\* A constructor argument: None, a list, or a value that is not a list.
NoSeed == [kind |-> "none", val |-> << >>]

ListSeed(s) == [kind |-> "list", val |-> s]

NotAList == [kind |-> "other", val |-> << >>]

\* FIFOQueue.__init__ / LIFOQueue.__init__ / Stack.__init__: the exception raised, if any
ListCtorOutcome(arg) == IF arg.kind \in {"none", "list"} THEN "ok" ELSE "TypeError"

\* ... and the _data they set
ListCtorData(arg) == IF arg.kind = "list" THEN arg.val ELSE << >>

\* variant: push appends at the end of the list
FIFOPushDataAtEnd(data, element) == Append(data, element)

\* FIFOQueue.push: self._data.insert(0, element)
FIFOPushData(data, element) == <<element>> \o data

\* variant: push inserts at the start of the list
LIFOPushDataAtStart(data, element) == <<element>> \o data

\* LIFOQueue.push / Stack.push: self._data.append(element)
LIFOPushData(data, element) == Append(data, element)

\* variant: pop reads the last element without removing it
ListPopRestKeeps(data) == data

\* list.pop(): the element returned and the list left (non-empty list)
ListPopRest(data) == Front(data)

ListPopItem(data) == Last(data)

\* is_empty of every container: len(self._data) == 0
IsEmptyData(data) == Len(data) = 0

\* The key functions handed to has_element: the default lambda elem: elem,
\* and lambda elem: elem % 2.
Keys == {"id", "mod2"}

KeyOf(key, elem) == IF key = "id" THEN elem ELSE elem % 2

\* FIFOQueue.has_element / LIFOQueue.has_element / Stack.has_element:
\* for elem in self._data: if key(elem) == element: return True
RECURSIVE ListScan(_, _, _, _)
ListScan(data, element, key, i) ==
  IF i > Len(data) THEN FALSE
  ELSE IF KeyOf(key, data[i]) = element THEN TRUE
  ELSE ListScan(data, element, key, i + 1)

ListHasElementOf(data, element, key) == ListScan(data, element, key, 1)

\* variant: top on an empty list returns nothing instead of raising
ListTopOutcomeSilent(data) == ""

\* FIFOQueue.top / LIFOQueue.top / Stack.top: self._data[-1], the exception raised if any
ListTopOutcome(data) == IF Len(data) = 0 THEN "IndexError" ELSE ""

\* ... the value returned, as a list
ListTopItem(data) == IF Len(data) = 0 THEN << >> ELSE <<Last(data)>>

\* variant: top removes the element it returns
ListTopRestPops(data) == Front(data)

\* ... and the _data it leaves
ListTopRest(data) == data

\* a Python bool as the integer it equals
Bool(b) == IF b THEN 1 ELSE 0

\* ----------------------------------------------------------- PriorityQueue
\* variant: push appends the entry without sifting it into place
PQPushDataPlainAppend(data, counter, element, priority) ==
  Append(data, <<priority, counter, element>>)

\* PriorityQueue.push
PQPushData(data, counter, element, priority) == HeapPush(data, <<priority, counter, element>>)

\* variant: push leaves the counter where it is
PQPushCounterStuck(counter) == counter

\* PriorityQueue.push: self._counter += 1
PQPushCounter(counter) == counter + 1

\* index (1-based) of the first entry of the list whose element equals `element`, 0 if none
FirstMatch(data, element) ==
  IF \E i \in 1..Len(data) : data[i][3] = element
  THEN CHOOSE i \in 1..Len(data) :
         /\ data[i][3] = element
         /\ \A j \in 1..(i - 1) : data[j][3] # element
  ELSE 0

\* variant: an equal priority is replaced too
UpdateKeepsStrict(prio, priority) == prio < priority

\* PriorityQueue.update: does the scan stop without changing anything?
UpdateKeeps(prio, priority) == prio <= priority

\* variant: the heap is not rebuilt after the replacement
UpdateReplaceNoHeapify(data, index, element, priority) ==
  Append(RemoveAt(data, index), <<priority, data[index][2], element>>)

\* PriorityQueue.update: the list after replacing the entry at index and rebuilding the heap
UpdateReplace(data, index, element, priority) ==
  Heapify(Append(RemoveAt(data, index), <<priority, data[index][2], element>>))

\* variant: the else clause of the scan is missing, an absent element is not pushed
PQUpdateDataNoElse(data, counter, element, priority) ==
  LET index == FirstMatch(data, element)
  IN IF index = 0 THEN data
     ELSE IF UpdateKeeps(data[index][1], priority) THEN data
     ELSE UpdateReplace(data, index, element, priority)

\* PriorityQueue.update: the _data it leaves
PQUpdateData(data, counter, element, priority) ==
  LET index == FirstMatch(data, element)
  IN IF index = 0 THEN PQPushData(data, counter, element, priority)
     ELSE IF UpdateKeeps(data[index][1], priority) THEN data
     ELSE UpdateReplace(data, index, element, priority)

\* PriorityQueue.update: the _counter it leaves
PQUpdateCounter(data, counter, element) ==
  IF FirstMatch(data, element) = 0 THEN PQPushCounter(counter) ELSE counter

\* variant: the key function is applied to the priority of the entry
PQScanOnPriority(data, element, key, i) ==
  \E j \in i..Len(data) : KeyOf(key, data[j][1]) = element

\* PriorityQueue.has_element:
\* for priority, counter, elem in self._data: if key(elem) == element: return True
RECURSIVE PQScan(_, _, _, _)
PQScan(data, element, key, i) ==
  IF i > Len(data) THEN FALSE
  ELSE IF KeyOf(key, data[i][3]) = element THEN TRUE
  ELSE PQScan(data, element, key, i + 1)

PQHasElementOf(data, element, key) == PQScan(data, element, key, 1)

\* variant: top peeks at the heap when there is something to peek at
PQTopOutcomePeeks(data) == IF Len(data) = 0 THEN "NotImplementedError" ELSE ""

\* PriorityQueue.top: raise NotImplementedError
PQTopOutcome(data) == "NotImplementedError"

\* PriorityQueue.__init__: push every (element, priority) pair of a list seed
RECURSIVE PQSeedData(_, _, _)
PQSeedData(data, counter, pairs) ==
  IF pairs = << >> THEN data
  ELSE PQSeedData(PQPushData(data, counter, Head(pairs)[1], Head(pairs)[2]),
                  PQPushCounter(counter), Tail(pairs))

RECURSIVE PQSeedCounter(_, _)
PQSeedCounter(counter, pairs) ==
  IF pairs = << >> THEN counter ELSE PQSeedCounter(PQPushCounter(counter), Tail(pairs))

\* ------------------------------------------------------------ SearchProblem
\* Two concrete problems drive the nodes.  "arith": states 1..4, an action is a
\* step size and result adds it (wrapping inside 1..4).  "ucs": the four-state
\* routing problem S, A, B, G.
U == [S |-> 11, A |-> 12, B |-> 13, G |-> 14, go_A |-> 21, go_B |-> 22, go_G |-> 23]

ProblemStates(p) == IF p = "arith" THEN 1..4 ELSE {U.S, U.A, U.B, U.G}

\* SearchProblem.actions
Actions(p, state) ==
  IF p = "arith"
  THEN CASE state = 1 -> <<2, 3>>
         [] state = 2 -> <<1, 4>>
         [] state = 3 -> <<1, 2>>
         [] OTHER -> << >>
  ELSE CASE state = U.S -> <<U.go_A, U.go_B>>
         [] state = U.A -> <<U.go_G>>
         [] OTHER -> << >>

\* SearchProblem.result
Result(p, state, action) ==
  IF p = "arith" THEN ((state + action - 1) % 4) + 1
  ELSE CASE action = U.go_A -> U.A
         [] action = U.go_B -> U.B
         [] OTHER -> U.G

\* SearchProblem.cost_action
CostAction(p, start_state, action, end_state) ==
  IF p = "arith" THEN action
  ELSE IF action = U.go_B THEN 5 ELSE 1

\* SearchProblem.is_goal_state
IsGoalState(p, state) == IF p = "arith" THEN state = 4 ELSE state = U.G

\* SearchProblem.successors: the triples it yields, in order
Successors(p, state) ==
  [i \in 1..Len(Actions(p, state)) |->
     LET action == Actions(p, state)[i]
         successor_state == Result(p, state, action)
         cost == CostAction(p, state, action, successor_state)
     IN <<action, successor_state, cost>>]

\* --------------------------------------------------------------------- Node
None == 0

\* Node(state): a root
RootNode(state) ==
  [state |-> state, action |-> None, parent |-> None, path_cost |-> 0, depth |-> 0]

\* variant: the child is linked to the parent of the expanded node
ExpandChildSkipsLevel(ns, self, item) ==
  [state |-> item[1], action |-> item[2], parent |-> ns[self].parent,
   path_cost |-> item[3] + ns[self].path_cost, depth |-> ns[self].depth + 1]

\* variant: the step cost is not added to the cost of the path so far
ExpandChildStepCostOnly(ns, self, item) ==
  [state |-> item[1], action |-> item[2], parent |-> self,
   path_cost |-> item[3], depth |-> ns[self].depth + 1]

\* Node.expand: the child built from one item of successors_func(self.state);
\* the loop unpacks the item as (state, action, step_cost)
ExpandChild(ns, self, item) ==
  [state |-> item[1], action |-> item[2], parent |-> self,
   path_cost |-> item[3] + ns[self].path_cost, depth |-> ns[self].depth + 1]

\* variant: the expanded node accumulates the step cost itself
ExpandStepTouchesSelf(ns, self, item) ==
  Append([ns EXCEPT ![self].path_cost = @ + item[3]], ExpandChild(ns, self, item))

\* Node.expand: the nodes that exist after one item of the loop was handled
ExpandStep(ns, self, item) == Append(ns, ExpandChild(ns, self, item))

\* Python index k of an array of length n, as a 1-based position
PyIndex(n, k) == IF k >= 0 THEN k + 1 ELSE n + k + 1

\* Node._path_finder_("action"): for i in range(path_length): path[-i] = ...
RECURSIVE ActionPathLoop(_, _, _, _)
ActionPathLoop(ns, path, current_node, i) ==
  IF i >= Len(path) THEN path
  ELSE ActionPathLoop(ns, [path EXCEPT ![PyIndex(Len(path), 0 - i)] = ns[current_node].action],
                      ns[current_node].parent, i + 1)

\* variant: the node path is filled front to back while walking up
RECURSIVE NodePathLoopForward(_, _, _, _)
NodePathLoopForward(ns, path, current_node, i) ==
  IF i > Len(path) THEN path
  ELSE NodePathLoopForward(ns, [path EXCEPT ![i] = current_node],
                           ns[current_node].parent, i + 1)

\* Node._path_finder_("node"): for i in range(1, path_length+1): path[-i] = ...
RECURSIVE NodePathLoop(_, _, _, _)
NodePathLoop(ns, path, current_node, i) ==
  IF i > Len(path) THEN path
  ELSE NodePathLoop(ns, [path EXCEPT ![PyIndex(Len(path), 0 - i)] = current_node],
                    ns[current_node].parent, i + 1)

\* Node.path
Path(ns, self) == ActionPathLoop(ns, [k \in 1..ns[self].depth |-> None], self, 0)

\* Node.node_path (nodes by their identity)
NodePath(ns, self) == NodePathLoop(ns, [k \in 1..(ns[self].depth + 1) |-> None], self, 1)

\* ------------------------------------------------------------------- state
listVars == <<fifo_data, lifo_data, stack_data, log>>

pqVars == <<pq_data, pq_counter, pq_in, pq_out>>

nodeVars == <<nodes, gen, made>>

ucsVars == <<ucs_pc, ucs_cur>>

Call(op, a, b) == [op |-> op, elem |-> a, prio |-> b]

NoGen == [node |-> None, pos |-> 0]

SeedEvents(s) == [i \in 1..Len(s) |-> <<"seed", s[i]>>]

ListArgs == {NoSeed, NotAList} \cup {ListSeed(s) : s \in SeqsUpTo(Elems, MaxSeed)}

PQArgs == {NoSeed, NotAList} \cup {ListSeed(s) : s \in SeqsUpTo(PQElems \X Prios, MaxSeed)}

\* the constructor call, telling a seed that is present and not a list from the rest
CtorCall(arg) == Call(IF arg.kind = "other" THEN "init_other" ELSE "init", 0, 0)

\* The state right after the constructor of one object has run.
InitList(class) ==
  \E arg \in ListArgs :
    /\ obj = class
    /\ call = CtorCall(arg)
    /\ ctor = ListCtorOutcome(arg)
    /\ fifo_data = IF class = "FIFOQueue" THEN ListCtorData(arg) ELSE << >>
    /\ lifo_data = IF class = "LIFOQueue" THEN ListCtorData(arg) ELSE << >>
    /\ stack_data = IF class = "Stack" THEN ListCtorData(arg) ELSE << >>
    /\ log = SeedEvents(ListCtorData(arg))
    /\ pq_data = << >> /\ pq_counter = 0 /\ pq_in = << >> /\ pq_out = << >>
    /\ nodes = << >> /\ gen = NoGen /\ made = << >> /\ ucs_pc = "off" /\ ucs_cur = None

\* PriorityQueue.__init__: a seed that is not a list is skipped, nothing is raised
InitPQ ==
  \E arg \in PQArgs :
    LET pairs == IF arg.kind = "list" THEN arg.val ELSE << >>
    IN /\ obj = "PriorityQueue"
       /\ call = CtorCall(arg)
       /\ ctor = "ok"
       /\ pq_data = PQSeedData(<< >>, 0, pairs)
       /\ pq_counter = PQSeedCounter(0, pairs)
       /\ pq_in = pairs /\ pq_out = << >>
       /\ fifo_data = << >> /\ lifo_data = << >> /\ stack_data = << >> /\ log = << >>
       /\ nodes = << >> /\ gen = NoGen /\ made = << >> /\ ucs_pc = "off" /\ ucs_cur = None

\* A root node of the arith problem, to be expanded.
InitNode ==
  \E state \in ProblemStates("arith") :
    /\ obj = "Node" /\ ctor = "ok" /\ call = CtorCall(NoSeed)
    /\ nodes = <<RootNode(state)>> /\ gen = NoGen /\ made = <<0>>
    /\ fifo_data = << >> /\ lifo_data = << >> /\ stack_data = << >> /\ log = << >>
    /\ pq_data = << >> /\ pq_counter = 0 /\ pq_in = << >> /\ pq_out = << >>
    /\ ucs_pc = "off" /\ ucs_cur = None

\* The uniform-cost driving loop over the ucs problem, about to start.
InitUCS ==
  /\ obj = "UCS" /\ ctor = "ok" /\ call = CtorCall(NoSeed)
  /\ nodes = <<RootNode(U.S)>> /\ gen = NoGen /\ made = <<0>>
  /\ fifo_data = << >> /\ lifo_data = << >> /\ stack_data = << >> /\ log = << >>
  /\ pq_data = << >> /\ pq_counter = 0 /\ pq_in = << >> /\ pq_out = << >>
  /\ ucs_pc = "start" /\ ucs_cur = None

Init ==
  /\ exc = "" /\ ret = << >>
  /\ \/ InitList("FIFOQueue") \/ InitList("LIFOQueue") \/ InitList("Stack")
     \/ InitPQ \/ InitNode \/ InitUCS

\* ------------------------------------------------ FIFO / LIFO / Stack actions
CanCall == ctor = "ok" /\ Len(log) < MaxSeed + MaxOps

FIFOPush(element) ==
  /\ obj = "FIFOQueue" /\ CanCall /\ Len(fifo_data) < MaxLen
  /\ fifo_data' = FIFOPushData(fifo_data, element)
  /\ log' = Append(log, <<"push", element>>)
  /\ ret' = << >> /\ call' = Call("push", element, 0) /\ exc' = ""
  /\ UNCHANGED <<obj, ctor, lifo_data, stack_data, pqVars, nodeVars, ucsVars>>

FIFOPop ==
  /\ obj = "FIFOQueue" /\ CanCall
  /\ ret' = << >> /\ call' = Call("pop", 0, 0)
  /\ IF Len(fifo_data) = 0
     THEN exc' = "IndexError" /\ UNCHANGED <<fifo_data, log>>
     ELSE /\ exc' = ""
          /\ fifo_data' = ListPopRest(fifo_data)
          /\ log' = Append(log, <<"pop", ListPopItem(fifo_data)>>)
  /\ UNCHANGED <<obj, ctor, lifo_data, stack_data, pqVars, nodeVars, ucsVars>>

LIFOPush(element) ==
  /\ obj = "LIFOQueue" /\ CanCall /\ Len(lifo_data) < MaxLen
  /\ lifo_data' = LIFOPushData(lifo_data, element)
  /\ log' = Append(log, <<"push", element>>)
  /\ ret' = << >> /\ call' = Call("push", element, 0) /\ exc' = ""
  /\ UNCHANGED <<obj, ctor, fifo_data, stack_data, pqVars, nodeVars, ucsVars>>

LIFOPop ==
  /\ obj = "LIFOQueue" /\ CanCall
  /\ ret' = << >> /\ call' = Call("pop", 0, 0)
  /\ IF Len(lifo_data) = 0
     THEN exc' = "IndexError" /\ UNCHANGED <<lifo_data, log>>
     ELSE /\ exc' = ""
          /\ lifo_data' = ListPopRest(lifo_data)
          /\ log' = Append(log, <<"pop", ListPopItem(lifo_data)>>)
  /\ UNCHANGED <<obj, ctor, fifo_data, stack_data, pqVars, nodeVars, ucsVars>>

StackPush(element) ==
  /\ obj = "Stack" /\ CanCall /\ Len(stack_data) < MaxLen
  /\ stack_data' = LIFOPushData(stack_data, element)
  /\ log' = Append(log, <<"push", element>>)
  /\ ret' = << >> /\ call' = Call("push", element, 0) /\ exc' = ""
  /\ UNCHANGED <<obj, ctor, fifo_data, lifo_data, pqVars, nodeVars, ucsVars>>

StackPop ==
  /\ obj = "Stack" /\ CanCall
  /\ ret' = << >> /\ call' = Call("pop", 0, 0)
  /\ IF Len(stack_data) = 0
     THEN exc' = "IndexError" /\ UNCHANGED <<stack_data, log>>
     ELSE /\ exc' = ""
          /\ stack_data' = ListPopRest(stack_data)
          /\ log' = Append(log, <<"pop", ListPopItem(stack_data)>>)
  /\ UNCHANGED <<obj, ctor, fifo_data, lifo_data, pqVars, nodeVars, ucsVars>>

\* The read-only calls of the three list-backed classes.
ListClasses == {"FIFOQueue", "LIFOQueue", "Stack"}

\* self._data of the list-backed object
ListData ==
  IF obj = "FIFOQueue" THEN fifo_data ELSE IF obj = "LIFOQueue" THEN lifo_data ELSE stack_data

\* values has_element is asked about, stored or not
Probes == {0, 1, 2, 3, 9}

ListTop ==
  /\ obj \in ListClasses /\ ctor = "ok"
  /\ call' = Call("top", 0, 0)
  /\ exc' = ListTopOutcome(ListData)
  /\ ret' = ListTopItem(ListData)
  /\ fifo_data' = IF obj = "FIFOQueue" THEN ListTopRest(fifo_data) ELSE fifo_data
  /\ lifo_data' = IF obj = "LIFOQueue" THEN ListTopRest(lifo_data) ELSE lifo_data
  /\ stack_data' = IF obj = "Stack" THEN ListTopRest(stack_data) ELSE stack_data
  /\ UNCHANGED <<obj, ctor, log, pqVars, nodeVars, ucsVars>>

ListIsEmpty ==
  /\ obj \in ListClasses /\ ctor = "ok"
  /\ call' = Call("is_empty", 0, 0) /\ exc' = ""
  /\ ret' = <<Bool(IsEmptyData(ListData))>>
  /\ UNCHANGED <<obj, ctor, listVars, pqVars, nodeVars, ucsVars>>

\* has_element(element, key) for some element and key: only the answer is kept
ListHasElement ==
  /\ obj \in ListClasses /\ ctor = "ok"
  /\ call' = Call("has_element", 0, 0) /\ exc' = ""
  /\ \E answer \in {ListHasElementOf(ListData, element, key) : element \in Probes, key \in Keys} :
       ret' = <<Bool(answer)>>
  /\ UNCHANGED <<obj, ctor, listVars, pqVars, nodeVars, ucsVars>>

\* ----------------------------------------------------- PriorityQueue actions
\* some stored entry carries an element equal to `element`
PQHolds(data, element) == \E i \in 1..Len(data) : data[i][3] = element

PQPush(element, priority) ==
  /\ obj = "PriorityQueue" /\ pq_counter < MaxCounter
  /\ pq_data' = PQPushData(pq_data, pq_counter, element, priority)
  /\ pq_counter' = PQPushCounter(pq_counter)
  /\ pq_in' = Append(pq_in, <<element, priority>>)
  /\ ret' = << >> /\ call' = Call("push", element, priority) /\ exc' = ""
  /\ UNCHANGED <<obj, ctor, listVars, pq_out, nodeVars, ucsVars>>

PQPop ==
  /\ obj = "PriorityQueue"
  /\ ret' = << >> /\ call' = Call("pop", 0, 0)
  /\ IF Len(pq_data) = 0
     THEN exc' = "IndexError" /\ UNCHANGED <<pq_data, pq_out>>
     ELSE /\ exc' = ""
          /\ pq_data' = HeapPopRest(pq_data)
          /\ pq_out' = Append(pq_out, HeapPopItem(pq_data))
  /\ UNCHANGED <<obj, ctor, listVars, pq_counter, pq_in, nodeVars, ucsVars>>

PQUpdate(element, priority) ==
  /\ obj = "PriorityQueue"
  /\ ~PQHolds(pq_data, element) => pq_counter < MaxCounter
  /\ pq_data' = PQUpdateData(pq_data, pq_counter, element, priority)
  /\ pq_counter' = PQUpdateCounter(pq_data, pq_counter, element)
  /\ pq_in' = IF PQHolds(pq_data, element) THEN pq_in ELSE Append(pq_in, <<element, priority>>)
  /\ ret' = << >> /\ call' = Call("update", element, priority) /\ exc' = ""
  /\ UNCHANGED <<obj, ctor, listVars, pq_out, nodeVars, ucsVars>>

PQTop ==
  /\ obj = "PriorityQueue"
  /\ call' = Call("top", 0, 0)
  /\ exc' = PQTopOutcome(pq_data)
  /\ ret' = << >>
  /\ UNCHANGED <<obj, ctor, listVars, pqVars, nodeVars, ucsVars>>

PQIsEmpty ==
  /\ obj = "PriorityQueue"
  /\ call' = Call("is_empty", 0, 0) /\ exc' = ""
  /\ ret' = <<Bool(IsEmptyData(pq_data))>>
  /\ UNCHANGED <<obj, ctor, listVars, pqVars, nodeVars, ucsVars>>

PQHasElement ==
  /\ obj = "PriorityQueue"
  /\ call' = Call("has_element", 0, 0) /\ exc' = ""
  /\ \E answer \in {PQHasElementOf(pq_data, element, key) : element \in Probes, key \in Keys} :
       ret' = <<Bool(answer)>>
  /\ UNCHANGED <<obj, ctor, listVars, pqVars, nodeVars, ucsVars>>

\* ------------------------------------------------------------- Node actions
\* node.expand(problem.successors): the call only creates the generator
NodeExpand(n) ==
  /\ obj = "Node" /\ gen = NoGen
  /\ gen' = [node |-> n, pos |-> 0]
  /\ ret' = << >> /\ call' = Call("expand", n, 0) /\ exc' = ""
  /\ UNCHANGED <<obj, ctor, listVars, pqVars, nodes, made, ucsVars>>

\* next(generator): builds the next child, or ends the generator
GenNext ==
  /\ obj = "Node" /\ gen # NoGen
  /\ LET items == Successors("arith", nodes[gen.node].state)
     IN IF gen.pos < Len(items)
        THEN /\ Len(nodes) < MaxNodes
             /\ nodes' = ExpandStep(nodes, gen.node, items[gen.pos + 1])
             /\ made' = Append(made, gen.pos + 1)
             /\ gen' = [gen EXCEPT !.pos = gen.pos + 1]
             /\ exc' = ""
        ELSE /\ gen' = NoGen
             /\ exc' = "StopIteration"
             /\ UNCHANGED <<nodes, made>>
  /\ ret' = << >> /\ call' = Call("next", gen.node, 0)
  /\ UNCHANGED <<obj, ctor, listVars, pqVars, ucsVars>>

\* the caller drops the generator before it is exhausted
GenAbandon ==
  /\ obj = "Node" /\ gen # NoGen
  /\ gen' = NoGen
  /\ ret' = << >> /\ call' = Call("abandon", gen.node, 0) /\ exc' = ""
  /\ UNCHANGED <<obj, ctor, listVars, pqVars, nodes, made, ucsVars>>

\* node.path
NodePathRead(n) ==
  /\ obj = "Node"
  /\ call' = Call("path", n, 0) /\ exc' = ""
  /\ ret' = Path(nodes, n)
  /\ UNCHANGED <<obj, ctor, listVars, pqVars, nodeVars, ucsVars>>

\* node.node_path
NodeNodePathRead(n) ==
  /\ obj = "Node"
  /\ call' = Call("node_path", n, 0) /\ exc' = ""
  /\ ret' = NodePath(nodes, n)
  /\ UNCHANGED <<obj, ctor, listVars, pqVars, nodeVars, ucsVars>>

\* ------------------------------------------------- uniform-cost driving loop
\* frontier.push(Node(S), 0)
UCSStart ==
  /\ obj = "UCS" /\ ucs_pc = "start"
  /\ pq_data' = PQPushData(pq_data, pq_counter, 1, 0)
  /\ pq_counter' = PQPushCounter(pq_counter)
  /\ pq_in' = Append(pq_in, <<1, 0>>)
  /\ ucs_pc' = "pop"
  /\ ret' = << >> /\ call' = Call("push", 1, 0) /\ exc' = ""
  /\ UNCHANGED <<obj, ctor, listVars, pq_out, nodeVars, ucs_cur>>

\* node = frontier.pop()
UCSPop ==
  /\ obj = "UCS" /\ ucs_pc = "pop"
  /\ ret' = << >> /\ call' = Call("pop", 0, 0)
  /\ IF Len(pq_data) = 0
     THEN exc' = "IndexError" /\ ucs_pc' = "error" /\ UNCHANGED <<pq_data, pq_out, ucs_cur>>
     ELSE /\ exc' = ""
          /\ pq_data' = HeapPopRest(pq_data)
          /\ pq_out' = Append(pq_out, HeapPopItem(pq_data))
          /\ ucs_cur' = HeapPopItem(pq_data)[3]
          /\ ucs_pc' = "test"
  /\ UNCHANGED <<obj, ctor, listVars, pq_counter, pq_in, nodeVars>>

\* if problem.is_goal_state(node.state): stop; else children = node.expand(problem.successors)
UCSTest ==
  /\ obj = "UCS" /\ ucs_pc = "test"
  /\ IF IsGoalState("ucs", nodes[ucs_cur].state)
     THEN ucs_pc' = "found" /\ UNCHANGED gen
     ELSE ucs_pc' = "expand" /\ gen' = [node |-> ucs_cur, pos |-> 0]
  /\ ret' = << >> /\ call' = Call("is_goal_state", ucs_cur, 0) /\ exc' = ""
  /\ UNCHANGED <<obj, ctor, listVars, pqVars, nodes, made, ucs_cur>>

\* for child in children: frontier.push(child, child.path_cost)
UCSExpandNext ==
  /\ obj = "UCS" /\ ucs_pc = "expand"
  /\ LET items == Successors("ucs", nodes[gen.node].state)
         child == ExpandChild(nodes, gen.node, items[gen.pos + 1])
     IN IF gen.pos < Len(items)
        THEN /\ nodes' = ExpandStep(nodes, gen.node, items[gen.pos + 1])
             /\ made' = Append(made, gen.pos + 1)
             /\ gen' = [gen EXCEPT !.pos = gen.pos + 1]
             /\ pq_data' = PQPushData(pq_data, pq_counter, Len(nodes) + 1, child.path_cost)
             /\ pq_counter' = PQPushCounter(pq_counter)
             /\ pq_in' = Append(pq_in, <<Len(nodes) + 1, child.path_cost>>)
             /\ ret' = << >> /\ call' = Call("push", Len(nodes) + 1, child.path_cost)
             /\ UNCHANGED ucs_pc
        ELSE /\ gen' = NoGen
             /\ ucs_pc' = "pop"
             /\ ret' = << >> /\ call' = Call("next", gen.node, 0)
             /\ UNCHANGED <<nodes, made, pq_data, pq_counter, pq_in>>
  /\ exc' = ""
  /\ UNCHANGED <<obj, ctor, listVars, pq_out, ucs_cur>>

\* the problem is asked for the actions of a value that is not one of its
\* states: a problem that looks the state up raises instead of answering
UCSExpandRaise ==
  /\ obj = "UCS" /\ ucs_pc = "expand" /\ gen.pos = 0
  /\ nodes[gen.node].state \notin ProblemStates("ucs")
  /\ ucs_pc' = "error" /\ exc' = "KeyError" /\ gen' = NoGen
  /\ ret' = << >> /\ call' = Call("next", gen.node, 0)
  /\ UNCHANGED <<obj, ctor, listVars, pqVars, nodes, made, ucs_cur>>

\* ------------------------------------------------------------ specification
Next ==
  \/ \E element \in Elems : FIFOPush(element)
  \/ FIFOPop
  \/ \E element \in Elems : LIFOPush(element)
  \/ LIFOPop
  \/ \E element \in Elems : StackPush(element)
  \/ StackPop
  \/ \E element \in PQElems, priority \in Prios : PQPush(element, priority)
  \/ PQPop
  \/ \E element \in PQElems, priority \in Prios : PQUpdate(element, priority)
  \/ \E n \in 1..Len(nodes) : NodeExpand(n)
  \/ GenNext
  \/ GenAbandon
  \/ ListTop
  \/ ListIsEmpty
  \/ ListHasElement
  \/ PQTop
  \/ PQIsEmpty
  \/ PQHasElement
  \/ \E n \in 1..Len(nodes) : NodePathRead(n)
  \/ \E n \in 1..Len(nodes) : NodeNodePathRead(n)
  \/ UCSStart
  \/ UCSPop
  \/ UCSTest
  \/ UCSExpandNext
  \/ UCSExpandRaise

Spec == Init /\ [][Next]_vars

\* =================================================================== claims
\* ------------------------------------------------------ helpers of the claims
\* the entries in the order a drain (pop until empty) returns them
RECURSIVE Drain(_)
Drain(data) ==
  IF data = << >> THEN << >> ELSE <<HeapPopItem(data)>> \o Drain(HeapPopRest(data))

ElementsOf(entries) == [i \in 1..Len(entries) |-> entries[i][3]]

IsPrefix(s, t) == Len(s) <= Len(t) /\ s = SubSeq(t, 1, Len(s))

\* entry a is ahead of entry b: lower priority, or same priority and inserted earlier
Ahead(a, b) == a[1] < b[1] \/ (a[1] = b[1] /\ a[2] < b[2])

\* the entry still has the priority it was pushed with
AsPushed(entry) == pq_in[entry[2] + 1] = <<entry[3], entry[1]>>

EventsOf(kind) == SelectSeq(log, LAMBDA ev : ev[1] = kind)

ValuesOf(events) == [i \in 1..Len(events) |-> events[i][2]]

\* C1: pop removes and returns the stored entry of lowest priority, the earliest
\* inserted among those of that priority (an entry's counter is its position in
\* the sequence of insertions, also after update); pushing (A,5), (B,3), (C,3)
\* as elements 1, 2, 3 gives the pop order B, C, A.
C1_PopStep ==
  Len(pq_out') = Len(pq_out) + 1 =>
    LET r == Last(pq_out')
    IN /\ \E i \in 1..Len(pq_data) : pq_data[i] = r
       /\ \A i \in 1..Len(pq_data) : pq_data[i] = r \/ Ahead(r, pq_data[i])
       /\ pq_in[r[2] + 1][1] = r[3]
       /\ SeqToBag(pq_data') (+) SetToBag({r}) = SeqToBag(pq_data)

\* after exactly those three pushes and nothing else, popping until empty
C1_Example ==
  ( /\ pq_in = << <<1, 5>>, <<2, 3>>, <<3, 3>> >>
    /\ pq_out = << >>
    /\ \A i \in 1..Len(pq_data) : AsPushed(pq_data[i]) )
  => ElementsOf(Drain(pq_data)) = <<2, 3, 1>>

C1_PopLowestEarliest == [][C1_PopStep]_vars /\ []C1_Example

C1_Witness ==
  /\ obj = "PriorityQueue"
  /\ pq_in = << <<1, 5>>, <<2, 3>>, <<3, 3>> >>
  /\ \A i \in 1..Len(pq_out) : AsPushed(pq_out[i])
  /\ ElementsOf(pq_out) = <<2, 3, 1>>

\* C7: update(X, q) with q below the priority of a stored X keeps the multiset
\* of stored elements, and in the drain that follows X comes out before every
\* entry whose priority is greater than q.
C7_UpdateStep ==
  LET X == call'.elem
      q == call'.prio
  IN ( /\ call'.op = "update"
       /\ \E i \in 1..Len(pq_data) : pq_data[i][3] = X /\ pq_data[i][1] > q )
     => LET d == Drain(pq_data')
        IN /\ SeqToBag(ElementsOf(pq_data')) = SeqToBag(ElementsOf(pq_data))
           /\ \E k \in 1..Len(d) :
                /\ d[k][3] = X
                /\ \A j \in 1..Len(d) : d[j][1] > q => k < j

C7_UpdateLowerPopsFirst == [][C7_UpdateStep]_vars

\* an update that lowered the priority of X has just run, and an entry of
\* greater priority is stored next to it
C7_Witness ==
  /\ obj = "PriorityQueue" /\ call.op = "update"
  /\ \E i, j \in 1..Len(pq_data) :
       /\ pq_data[i][3] = call.elem /\ pq_data[i][1] = call.prio
       /\ pq_in[pq_data[i][2] + 1][2] > call.prio
       /\ pq_data[j][1] > call.prio /\ pq_data[j][2] < pq_data[i][2]

\* C8: with exactly one stored entry equal to X, of priority p, update(X, q)
\* with q >= p changes nothing: entries, priorities, counters, later pops.
C8_UpdateStep ==
  LET X == call'.elem
      q == call'.prio
      at == {i \in 1..Len(pq_data) : pq_data[i][3] = X}
  IN ( /\ call'.op = "update"
       /\ Cardinality(at) = 1
       /\ \A i \in at : q >= pq_data[i][1] )
     => /\ pq_data' = pq_data
        /\ pq_counter' = pq_counter
        /\ Drain(pq_data') = Drain(pq_data)

C8_UpdateWorseIsNoop == [][C8_UpdateStep]_vars

\* update(X, q) has just run on a queue of three entries where X sits at
\* priority q or better
C8_Witness ==
  /\ obj = "PriorityQueue" /\ call.op = "update" /\ Len(pq_data) = 3
  /\ Cardinality({i \in 1..Len(pq_data) : pq_data[i][3] = call.elem}) = 1
  /\ \E i \in 1..Len(pq_data) : pq_data[i][3] = call.elem /\ pq_data[i][1] <= call.prio
  /\ \A i \in 1..Len(pq_data) : AsPushed(pq_data[i])

\* C9: with no stored entry equal to X, update(X, q) leaves exactly the state
\* push(X, q) leaves: the same list, X entered under the running counter, and
\* the counter advanced by one.
C9_UpdateStep ==
  LET X == call'.elem
      q == call'.prio
  IN ( /\ call'.op = "update"
       /\ \A i \in 1..Len(pq_data) : pq_data[i][3] # X )
     => /\ pq_data' = HeapPush(pq_data, <<q, pq_counter, X>>)
        /\ pq_counter' = pq_counter + 1
        /\ SeqToBag(pq_data') = SeqToBag(pq_data) (+) SetToBag({<<q, pq_counter, X>>})

C9_UpdateAbsentIsPush == [][C9_UpdateStep]_vars

\* update has just entered an element that was not stored, next to another entry
C9_Witness ==
  /\ obj = "PriorityQueue" /\ call.op = "update" /\ Len(pq_data) >= 2
  /\ \E i \in 1..Len(pq_data) : pq_data[i] = <<call.prio, pq_counter - 1, call.elem>>
  /\ Last(pq_in) = <<call.elem, call.prio>>

\* C10: is_empty holds exactly when as many entries were added (seed elements,
\* pushes, updates of an element not stored) as were popped.
C10_Added == Len(EventsOf("seed")) + Len(EventsOf("push"))

C10_EmptyIffBalanced ==
  /\ (obj = "FIFOQueue" /\ ctor = "ok") =>
       (IsEmptyData(fifo_data) <=> C10_Added = Len(EventsOf("pop")))
  /\ (obj = "LIFOQueue" /\ ctor = "ok") =>
       (IsEmptyData(lifo_data) <=> C10_Added = Len(EventsOf("pop")))
  /\ obj = "PriorityQueue" =>
       (IsEmptyData(pq_data) <=> Len(pq_in) = Len(pq_out))

\* a seeded FIFOQueue that was pushed to and then emptied by pops
C10_Witness ==
  /\ obj = "FIFOQueue" /\ IsEmptyData(fifo_data)
  /\ Len(EventsOf("seed")) >= 1 /\ Len(EventsOf("push")) >= 1
  /\ Len(EventsOf("pop")) = C10_Added

\* C5: every pop of a FIFOQueue returns its current front: the seed elements
\* last to first, then the pushed elements in the order they were pushed.
C5_FIFOOrder ==
  (obj = "FIFOQueue" /\ ctor = "ok") =>
    IsPrefix(ValuesOf(EventsOf("pop")),
             Reverse(ValuesOf(EventsOf("seed"))) \o ValuesOf(EventsOf("push")))

\* seed [1, 2], a push of an element equal to a seed element, and three pops
C5_Witness ==
  /\ obj = "FIFOQueue"
  /\ ValuesOf(EventsOf("seed")) = <<1, 2>>
  /\ ValuesOf(EventsOf("push")) = <<2>>
  /\ ValuesOf(EventsOf("pop")) = <<2, 1, 2>>

\* the elements entered and not yet popped, oldest first, when every pop takes
\* the most recently entered one (seed elements count as entered in list order)
RECURSIVE Unpopped(_)
Unpopped(events) ==
  IF events = << >> THEN << >>
  ELSE IF Last(events)[1] = "pop" THEN Front(Unpopped(Front(events)))
  ELSE Append(Unpopped(Front(events)), Last(events)[2])

\* C6: every pop of a LIFOQueue or a Stack returns the most recently pushed
\* element that has not been popped yet.
C6_LIFOOrder ==
  (obj \in {"LIFOQueue", "Stack"} /\ ctor = "ok") =>
    \A k \in 1..Len(log) :
      log[k][1] = "pop" =>
        LET before == Unpopped(SubSeq(log, 1, k - 1))
        IN before # << >> /\ log[k][2] = Last(before)

\* a Stack after push 1, push 2 and two pops, which returned 2 and then 1
C6_Witness ==
  /\ obj = "Stack" /\ call.op = "pop" /\ stack_data = << >>
  /\ log = << <<"push", 1>>, <<"push", 2>>, <<"pop", 2>>, <<"pop", 1>> >>

\* the problem whose successors routine drives the expansions
Problem == IF obj = "UCS" THEN "ucs" ELSE "arith"

\* C2: the child built from the triple (action, next_state, action_cost) of
\* problem.successors(n.state) has state = next_state and action = action.
C2_ChildStep ==
  Len(nodes') = Len(nodes) + 1 =>
    LET triple == Successors(Problem, nodes[gen.node].state)[gen.pos + 1]
        child == Last(nodes')
    IN /\ child.action = triple[1]
       /\ child.state = triple[2]
       /\ child.state = Result(Problem, nodes[gen.node].state, child.action)

C2_ChildStateAndAction == [][C2_ChildStep]_vars

\* the ancestor of node n at depth k (n itself for k = depth of n)
RECURSIVE AncestorAt(_, _)
AncestorAt(n, k) == IF nodes[n].depth <= k THEN n ELSE AncestorAt(nodes[n].parent, k)

\* C3: the action path of a node of depth d has length d and its i-th entry is
\* the action stored in the node's ancestor at depth i (root-to-current order).
C3_PathRootToCurrent ==
  \A n \in 1..Len(nodes) :
    LET path == Path(nodes, n)
    IN /\ Len(path) = nodes[n].depth
       /\ \A i \in 1..nodes[n].depth : path[i] = nodes[AncestorAt(n, i)].action

\* C4: the uniform-cost loop over the S, A, B, G problem stops at a node of
\* state G with path_cost 2 and action path [go_A, go_G], and B is not popped
\* before; it does not end any other way.
C4_UniformCostFindsG ==
  /\ ucs_pc = "found" =>
       /\ nodes[ucs_cur].state = U.G
       /\ nodes[ucs_cur].path_cost = 2
       /\ Path(nodes, ucs_cur) = <<U.go_A, U.go_G>>
       /\ \A i \in 1..Len(pq_out) : nodes[pq_out[i][3]].state # U.B
  /\ ucs_pc # "error"

\* C11: consuming the generator of n.expand to its end yields exactly one
\* child per action of actions(n.state), in the order of the actions, the i-th
\* built from the i-th action, each with parent n; no action, no child.
C11_ExhaustStep ==
  (gen # NoGen /\ gen' = NoGen /\ call'.op = "next" /\ exc' # "KeyError") =>
    LET n == gen.node
        acts == Actions(Problem, nodes[n].state)
        k == Len(acts)
        base == Len(nodes) - k
    IN /\ gen.pos = k
       /\ nodes' = nodes
       /\ base >= 1
       /\ \A i \in 1..k :
            LET c == nodes[base + i]
                next_state == Result(Problem, nodes[n].state, acts[i])
            IN /\ c.parent = n
               /\ made[base + i] = i
               /\ acts[i] \in {c.state, c.action}
               /\ next_state \in {c.state, c.action}
               /\ c.path_cost = nodes[n].path_cost
                                  + CostAction(Problem, nodes[n].state, acts[i], next_state)

C11_ExpansionComplete == [][C11_ExhaustStep]_vars

\* the generator of a node with two actions has just been consumed to its end
C11_Witness ==
  /\ obj = "Node" /\ call.op = "next" /\ exc = "StopIteration" /\ gen = NoGen
  /\ Len(Actions("arith", nodes[call.elem].state)) = 2
  /\ nodes[Len(nodes)].parent = call.elem /\ made[Len(nodes)] = 2
  /\ nodes[Len(nodes) - 1].parent = call.elem /\ made[Len(nodes) - 1] = 1

\* the cost of the step that led to node i: the cost in the item it was built from
StepCost(i) == Successors(Problem, nodes[nodes[i].parent].state)[made[i]][3]

\* number of parent links from node i to a root, and the step costs along them
RECURSIVE Links(_)
Links(i) == IF nodes[i].parent = None THEN 0 ELSE 1 + Links(nodes[i].parent)

RECURSIVE SumSteps(_)
SumSteps(i) == IF nodes[i].parent = None THEN 0 ELSE StepCost(i) + SumSteps(nodes[i].parent)

\* C12: a child is one level below its parent and costs the parent's path cost
\* plus the step cost; parent links lead to the root without a cycle, depth is
\* their number and path_cost the sum of the step costs along them.
C12_DepthAndCost ==
  /\ \A i \in 1..Len(nodes) :
       IF nodes[i].parent = None
       THEN i = 1 /\ nodes[i].depth = 0 /\ nodes[i].path_cost = 0
       ELSE /\ nodes[i].parent \in 1..(i - 1)
            /\ nodes[i].depth = nodes[nodes[i].parent].depth + 1
            /\ nodes[i].path_cost = nodes[nodes[i].parent].path_cost + StepCost(i)
  /\ \A i \in 1..Len(nodes) :
       /\ nodes[i].depth = Links(i)
       /\ nodes[i].path_cost = SumSteps(i)

\* a chain root -> n1 -> n2 -> n3 exists
C12_Witness ==
  \E i \in 1..Len(nodes) :
    /\ nodes[i].depth = 3
    /\ nodes[nodes[nodes[nodes[i].parent].parent].parent].parent = None
    /\ nodes[i].path_cost > nodes[nodes[i].parent].path_cost

\* C13: the node path of a node of depth d has d + 1 entries, the root first,
\* the node itself last, the i-th (from 0) being its ancestor at depth i.
C13_NodePathRootToCurrent ==
  \A n \in 1..Len(nodes) :
    LET np == NodePath(nodes, n)
        d == nodes[n].depth
    IN /\ Len(np) = d + 1
       /\ nodes[np[1]].parent = None
       /\ np[d + 1] = n
       /\ \A i \in 0..d : np[i + 1] = AncestorAt(n, i) /\ nodes[np[i + 1]].depth = i

\* a node of depth 2 with a sibling exists
C13_Witness ==
  \E n, m \in 1..Len(nodes) :
    /\ nodes[n].depth = 2 /\ n # m /\ nodes[m].parent = nodes[n].parent
    /\ Len(NodePath(nodes, n)) = 3

\* how often value e occurs in sequence s
Count(s, e) == Cardinality({i \in 1..Len(s) : s[i] = e})

\* the elements entered (seed, push, update of an element not stored) more
\* often than they were popped: the elements currently stored
ListStored ==
  {e \in Elems : Count(ValuesOf(EventsOf("seed")) \o ValuesOf(EventsOf("push")), e)
                   > Count(ValuesOf(EventsOf("pop")), e)}

PQStored ==
  {e \in PQElems : Count([i \in 1..Len(pq_in) |-> pq_in[i][1]], e) > Count(ElementsOf(pq_out), e)}

\* some stored element is projected by key onto v
SomeStored(stored, v, key) == \E e \in stored : KeyOf(key, e) = v

\* C14: has_element(v, key) is true exactly when key(e) = v for some element e
\* that is stored now (entered and not popped since); for the PriorityQueue the
\* key is applied to the element of an entry, not to its priority or counter.
C14_HasElementIffStored ==
  /\ (obj \in ListClasses /\ ctor = "ok") =>
       /\ \A v \in Probes, key \in Keys :
            ListHasElementOf(ListData, v, key) <=> SomeStored(ListStored, v, key)
       /\ call.op = "has_element" =>
            \E v \in Probes, key \in Keys : ret = <<Bool(SomeStored(ListStored, v, key))>>
  /\ obj = "PriorityQueue" =>
       /\ \A v \in Probes, key \in Keys :
            PQHasElementOf(pq_data, v, key) <=> SomeStored(PQStored, v, key)
       /\ call.op = "has_element" =>
            \E v \in Probes, key \in Keys : ret = <<Bool(SomeStored(PQStored, v, key))>>

\* elements 1, 2, 3 were pushed and 1 was popped: asked about 2 the answer is
\* true, about 9 or 1 it is false, and a has_element call has just answered
C14_Witness ==
  /\ obj = "PriorityQueue" /\ call.op = "has_element" /\ ret = <<0>>
  /\ pq_in = << <<1, 3>>, <<2, 5>>, <<3, 5>> >>
  /\ ElementsOf(pq_out) = <<1>>
  /\ PQHasElementOf(pq_data, 2, "id")
  /\ ~PQHasElementOf(pq_data, 9, "id")
  /\ ~PQHasElementOf(pq_data, 1, "id")

\* C15: pop or top on a FIFOQueue or LIFOQueue that holds nothing raises
\* IndexError, returns nothing and leaves the queue empty; a push(e) that
\* follows stores e alone, and the pop after that returns e.
C15_EmptyStep ==
  (obj \in {"FIFOQueue", "LIFOQueue"} /\ ctor = "ok") =>
    /\ (call'.op \in {"pop", "top"} /\ ListData = << >>) =>
         /\ exc' = "IndexError" /\ ret' = << >>
         /\ fifo_data' = << >> /\ lifo_data' = << >> /\ log' = log
    /\ (exc = "IndexError" /\ call'.op = "push") =>
         /\ exc' = ""
         /\ (IF obj = "FIFOQueue" THEN fifo_data' ELSE lifo_data') = <<call'.elem>>
    /\ (call.op = "push" /\ ListData = <<call.elem>> /\ call'.op = "pop") =>
         /\ exc' = ""
         /\ Last(log') = <<"pop", call.elem>>
         /\ fifo_data' = << >> /\ lifo_data' = << >>

C15_EmptyRaisesAndKeeps == [][C15_EmptyStep]_vars

\* top has just raised on a seeded FIFOQueue that was emptied by pops
C15_Witness ==
  /\ obj = "FIFOQueue" /\ call.op = "top" /\ exc = "IndexError"
  /\ fifo_data = << >>
  /\ Len(EventsOf("seed")) >= 1 /\ Len(EventsOf("pop")) = C10_Added

\* C16: a constructor handed a seed that is present and is not a list raises
\* TypeError, for FIFOQueue, LIFOQueue and PriorityQueue alike; no object, in
\* particular no empty one, comes out of such a call.
C16_NonListSeedRaises ==
  (obj \in {"FIFOQueue", "LIFOQueue", "PriorityQueue"} /\ call.op = "init_other") =>
    ctor = "TypeError"

\* C17: reading top of a PriorityQueue, empty or not, raises NotImplementedError,
\* returns nothing and leaves the list, the counter and the drain order as
\* they were.
C17_TopStep ==
  (obj = "PriorityQueue" /\ call'.op = "top") =>
    /\ exc' = "NotImplementedError" /\ ret' = << >>
    /\ pq_data' = pq_data /\ pq_counter' = pq_counter
    /\ pq_in' = pq_in /\ pq_out' = pq_out
    /\ Drain(pq_data') = Drain(pq_data)

C17_PQTopUnsupported == [][C17_TopStep]_vars

\* top has just been read on a PriorityQueue that was popped from and still
\* holds two entries or more
C17_Witness ==
  /\ obj = "PriorityQueue" /\ call.op = "top" /\ exc = "NotImplementedError"
  /\ Len(pq_data) >= 2 /\ Len(pq_out) >= 1

\* C18: top, is_empty and has_element of a FIFOQueue or LIFOQueue leave the
\* list and its order as they were; on a non-empty list top returns the element
\* the next pop returns, and a pop right after it does return that element;
\* has_element of a PriorityQueue leaves its list, counter and drain order alone.
C18_ReadStep ==
  /\ (obj \in {"FIFOQueue", "LIFOQueue"} /\ call'.op \in {"top", "is_empty", "has_element"}) =>
       /\ fifo_data' = fifo_data /\ lifo_data' = lifo_data /\ log' = log
       /\ (call'.op = "top" /\ ListData # << >>) =>
            exc' = "" /\ ret' = <<ListPopItem(ListData)>>
  /\ (obj \in {"FIFOQueue", "LIFOQueue"} /\ call.op = "top" /\ exc = "" /\ call'.op = "pop") =>
       exc' = "" /\ Last(log') = <<"pop", ret[1]>>
  /\ (obj = "PriorityQueue" /\ call'.op = "has_element") =>
       /\ pq_data' = pq_data /\ pq_counter' = pq_counter
       /\ pq_in' = pq_in /\ pq_out' = pq_out
       /\ Drain(pq_data') = Drain(pq_data)

C18_ReadOnlyKeepsContents == [][C18_ReadStep]_vars

\* top has just been read on a FIFOQueue holding two different elements, one
\* of them pushed: it returned the front and both are still stored
C18_Witness ==
  /\ obj = "FIFOQueue" /\ call.op = "top" /\ exc = ""
  /\ Len(fifo_data) = 2 /\ fifo_data[1] # fifo_data[2]
  /\ ret = <<fifo_data[2]>>
  /\ Len(EventsOf("push")) >= 1 /\ Len(EventsOf("pop")) >= 1

\* C19: no step changes a node that exists: expand (consumed fully, partly or
\* not at all), path and node_path leave every node as it is; a node is added
\* only by a pull from an expand generator, one per pull, as a child of the
\* expanded node; and two children pulled at the same position of two expand
\* calls on the same node are equal.
C19_NodeStep ==
  /\ IsPrefix(nodes, nodes')
  /\ Len(nodes') <= Len(nodes) + 1
  /\ Len(nodes') = Len(nodes) + 1 =>
       /\ gen # NoGen /\ gen'.node = gen.node /\ gen'.pos = gen.pos + 1
       /\ Last(nodes').parent = gen.node
       /\ made' = Append(made, gen'.pos)
  /\ call'.op \in {"expand", "abandon", "path", "node_path"} => nodes' = nodes

C19_SameChildren ==
  \A i, j \in 1..Len(nodes) :
    (nodes[i].parent # None /\ nodes[i].parent = nodes[j].parent /\ made[i] = made[j])
      => nodes[i] = nodes[j]

C19_NodesImmutable == [][C19_NodeStep]_vars /\ []C19_SameChildren

\* the root was expanded twice, the second time after the first generator was
\* dropped: the first child of each call exists, node_path has just been read
C19_Witness ==
  /\ obj = "Node" /\ call.op = "node_path"
  /\ \E i, j \in 1..Len(nodes) :
       /\ i < j /\ nodes[i].parent = 1 /\ nodes[j].parent = 1
       /\ made[i] = 1 /\ made[j] = 1
       /\ \A k \in 1..Len(nodes) : nodes[k].parent = 1 /\ k # i /\ k # j => made[k] = 2 /\ k > j

\* C20: the list of a PriorityQueue is a binary min-heap on (priority,
\* counter): no entry is ahead of its parent; the counters of the stored
\* entries are pairwise distinct and below the running counter, each the
\* position at which the entry's element was inserted; the running counter
\* never decreases, and update leaves the counters of the stored entries alone.
C20_Heap ==
  /\ \A i \in 1..Len(pq_data) :
       \A c \in {2 * i, 2 * i + 1} \cap (1..Len(pq_data)) :
         /\ ~Ahead(pq_data[c], pq_data[i])
         /\ ~EntryLess(pq_data[c], pq_data[i])
  /\ \A i, j \in 1..Len(pq_data) : i # j => pq_data[i][2] # pq_data[j][2]
  /\ \A i \in 1..Len(pq_data) :
       /\ pq_data[i][2] \in 0..(pq_counter - 1)
       /\ pq_in[pq_data[i][2] + 1][1] = pq_data[i][3]
  /\ pq_counter = Len(pq_in)

C20_CounterStep ==
  /\ pq_counter' >= pq_counter
  /\ (call'.op = "update" /\ PQHolds(pq_data, call'.elem)) =>
       /\ pq_counter' = pq_counter
       /\ {<<pq_data'[i][2], pq_data'[i][3]>> : i \in 1..Len(pq_data')}
            = {<<pq_data[i][2], pq_data[i][3]>> : i \in 1..Len(pq_data)}

C20_HeapAndCounters == []C20_Heap /\ [][C20_CounterStep]_vars

\* update has just lowered the priority of the entry inserted last of three,
\* which moved to the root of the heap under its old counter
C20_Witness ==
  /\ obj = "PriorityQueue" /\ call.op = "update" /\ Len(pq_data) = 3 /\ pq_counter = 3
  /\ pq_data[1] = <<call.prio, 2, call.elem>>
  /\ pq_in[3][2] > call.prio
  /\ pq_data[2][1] > call.prio

====
